---- MODULE Spec2Model ----
(***************************************************************************)
(* A model of flexget/plugins/daemon/scheduler.py: the reconciliation of   *)
(* the `schedules` configuration with the apscheduler job store            *)
(* (setup_scheduler, setup_jobs, the shutdown handlers) and the schedule   *)
(* CRUD API (schedules, get_schedule, update_schedule, delete_schedule).   *)
(*                                                                         *)
(* Python values are modelled as follows.                                  *)
(*  - A dict is a TLA+ function whose DOMAIN is the dict's key set, so     *)
(*    `'interval' in job_config` is "interval" \in DOMAIN conf.            *)
(*  - A `tasks` value is [list |-> <<..>>] (a list of strings) or          *)
(*    [str |-> ".."] (a bare string), so isinstance(tasks, list) is        *)
(*    "list" \in DOMAIN tasks.                                             *)
(*  - A schedule object of the config is [addr |-> a, conf |-> dict]:      *)
(*    addr is the object's id(), the CPython address of the dict.  Two     *)
(*    live objects never share an address; the address of a new object is  *)
(*    any address no live schedule object holds (an address freed by a     *)
(*    deleted object may be handed out again).                             *)
(*  - manager.config['schedules'] is [kind |-> "absent"|"false"|"list",    *)
(*    list |-> sequence of schedule objects].                              *)
(*  - The apscheduler scheduler is [exists, running, timezone]; its        *)
(*    persistent (SQLAlchemy) job store is the set `jobs`, which survives  *)
(*    a restart of the process.  get_jobs() returns the store's jobs,      *)
(*    add_job raises ConflictingIdError on an id already stored and        *)
(*    remove_job raises JobLookupError on an id not stored.                *)
(*  - `threads` holds the locals of setup_jobs when its statements run     *)
(*    one by one on two threads; `run` holds a call of run_job.            *)
(***************************************************************************)
EXTENDS Integers, Sequences, FiniteSets, TLC

\* ------------------------------------------------------------------ bounds
MaxSchedules == 2     \* longest schedule list explored
MaxTime == 1          \* the clock runs from 0 to MaxTime
AddrBase == 9         \* lowest object address handed out by id()
MaxRequests == 1      \* mutating API requests served in a run
MaxEvents == 3        \* most completion events one manager.execute returns

Addrs == AddrBase .. (AddrBase + MaxSchedules)

\* ------------------------------------------------------------ python values
\* unicode(n) of a non-negative integer: its decimal digits.
RECURSIVE Unicode(_)
Unicode(n) == IF n < 10 THEN <<n>> ELSE Append(Unicode(n \div 10), n % 10)

\* ','.join(tasks)
RECURSIVE Join(_)
Join(tasks) ==
    IF Len(tasks) = 0 THEN ""
    ELSE IF Len(tasks) = 1 THEN tasks[1]
    ELSE tasks[1] \o "," \o Join(Tail(tasks))

\* dict.update(new): keys of new overwrite, the others stay.
DictUpdate(d, new) ==
    [k \in DOMAIN d \cup DOMAIN new |-> IF k \in DOMAIN new THEN new[k] ELSE d[k]]

\* del d[key]
DictDel(d, key) == [k \in DOMAIN d \ {key} |-> d[k]]

EmptyDict == [k \in {} |-> 0]

\* UNITS, line 34
UNITS == {"minutes", "hours", "days", "weeks"}

\* cron_schema's properties, lines 52-58
CronFields == {"year", "month", "day", "week", "day_of_week", "hour", "minute"}

\* interval_schema, lines 35-47: an object with exactly one unit and no other key.
ValidInterval(v) ==
    /\ DOMAIN v \subseteq UNITS
    /\ Cardinality(DOMAIN v) = 1

\* cron_schema, lines 49-62: an object with cron fields only.
ValidCron(v) == DOMAIN v \subseteq CronFields

\* Line 70: `tasks` is an array (of strings) or a string.
ValidTasks(v) == DOMAIN v \subseteq {"list", "str"}

\* The oneOf of line 75 that accepts an item with a trigger or two.
AtLeastOneTrigger(conf) == ("schedule" \in DOMAIN conf) \/ ("interval" \in DOMAIN conf)

\* The oneOf of line 75: exactly one of required schedule, required interval.
OneTrigger(conf) == ("schedule" \in DOMAIN conf) # ("interval" \in DOMAIN conf)

\* The items schema of main_schema, lines 68-78.
ValidItem(conf) ==
    /\ "tasks" \in DOMAIN conf
    /\ ValidTasks(conf["tasks"])
    /\ DOMAIN conf \subseteq {"tasks", "interval", "schedule"}
    /\ OneTrigger(conf)
    /\ "interval" \in DOMAIN conf => ValidInterval(conf["interval"])
    /\ "schedule" \in DOMAIN conf => ValidCron(conf["schedule"])

\* main_schema, lines 64-82, on a `schedules` value: a list of valid items or False.
main_schema(sched) ==
    \/ sched.kind = "false"
    \/ /\ sched.kind = "list"
       /\ \A i \in 1..Len(sched.list) : ValidItem(sched.list[i])

\* The default of line 138.
DefaultConf == [tasks |-> [list |-> <<"*">>], interval |-> [hours |-> 1]]

\* ------------------------------------------------------------------ inputs
ConfHourly == [tasks |-> [list |-> <<"tv">>], interval |-> [hours |-> 1]]
ConfCron == [tasks |-> [str |-> "movies"], schedule |-> [hour |-> 3]]
ConfBoth == [tasks |-> [list |-> <<"tv">>], interval |-> [hours |-> 1],
             schedule |-> [hour |-> 3]]
ConfNeither == [tasks |-> [list |-> <<"tv">>]]
ConfUnknownKey == [tasks |-> [list |-> <<"tv">>], interval |-> [hours |-> 1],
                   bogus |-> 1]

\* The configs a client submits to Create and Replace: a well-formed one and
\* the malformed shapes (both triggers, no trigger, an unknown key).
SubmittedConfigs == {ConfCron, ConfBoth, ConfNeither, ConfUnknownKey}

\* The partial config a client submits to Update (PATCH); it carries the `id`
\* key a client gets back from the API.
PatchConfigs == {[id |-> AddrBase, interval |-> [hours |-> 2]]}

\* The schedule items a configuration file holds; the file is validated
\* against main_schema when it is loaded (register_config, lines 181-183).
FileConfigs == {c \in {ConfHourly} : ValidItem(c)}

\* The outcomes of tzlocal.get_localzone(), lines 111-119.
TzOutcomes == {"named", "local", "UnknownTimeZoneError", "struct.error"}

\* ------------------------------------------------------------------- state
VARIABLES
    is_daemon,   \* manager.is_daemon
    tzlocal,     \* what tzlocal.get_localzone() does on this machine
    config,      \* manager.config's `schedules`: [kind, list of schedule objects]
    saved,       \* the configuration file: [kind, list of dicts]
    scheduler,   \* the module global `scheduler`: [exists, running, timezone]
    jobs,        \* the persistent job store: a set of job records
    now,         \* the clock
    prev,        \* history: `config` as the last setup_jobs of this process saw it
    last,        \* history: what the last step did and returned
    requests,    \* history: the number of mutating API requests served
    threads,     \* the locals of setup_jobs on each thread that handles an event
    run          \* a call of run_job on a worker thread of the scheduler

vars == <<is_daemon, tzlocal, config, saved, scheduler, jobs, now, prev, last, requests,
          threads, run>>

\* The threads that handle events: the daemon's main thread and the thread
\* that serves API requests.
Threads == {"main", "api"}

\* A thread that is not in setup_jobs.
Idle == [pc |-> "idle", config |-> <<>>, existing_job_ids |-> {},
         configured_job_ids |-> {}, todo |-> {}, i |-> 0, err |-> ""]

\* No call of run_job under way.
NoRun == [pc |-> "idle", submitted |-> <<>>, finished_events |-> 0, waiting |-> 0,
          fired |-> <<>>]

Absent == [kind |-> "absent", list |-> <<>>]
Disabled == [kind |-> "false", list |-> <<>>]
ListOf(objs) == [kind |-> "list", list |-> objs]
NoPrev == [kind |-> "none", list |-> <<>>]

JobIds(js) == {j.id : j \in js}
LiveAddrs(cfg) == {cfg.list[i].addr : i \in 1..Len(cfg.list)}
\* The addresses a newly allocated dict may get.
FreeAddrs(cfg) == Addrs \ LiveAddrs(cfg)
Contents(cfg) == [kind |-> cfg.kind, list |-> [i \in 1..Len(cfg.list) |-> cfg.list[i].conf]]

\* ------------------------------------------------------------ the scheduler
\* The trigger's first fire time for a job added at time t: an interval trigger
\* fires one interval from now, a cron trigger at its `hour`.
NextRunTime(trigger, trigger_args, t) ==
    IF trigger = "interval"
    THEN t + trigger_args[CHOOSE u \in DOMAIN trigger_args : TRUE]
    ELSE trigger_args["hour"]

\* Lines 151-159: the job add_job stores for job_config under id jid.
NewJob(jid, job_config, t) ==
    LET trigger == IF "interval" \in DOMAIN job_config THEN "interval" ELSE "cron"
        trigger_args == IF "interval" \in DOMAIN job_config
                        THEN job_config["interval"] ELSE job_config["schedule"]
        tasks == IF "list" \in DOMAIN job_config["tasks"]
                 THEN job_config["tasks"]["list"]
                 ELSE <<job_config["tasks"]["str"]>>
    IN [id |-> jid, name |-> Join(tasks), args |-> tasks, trigger |-> trigger,
        trigger_args |-> trigger_args,
        next_run_time |-> NextRunTime(trigger, trigger_args, t)]

\* Line 147: the id setup_jobs gives the job of a schedule object.
JobIdOf(obj) == Unicode(obj.addr)

\* Line 138: manager.config.get('schedules', [default]).  The default list is
\* built at every call; its dict lives at address fresh until the call returns.
Desired(cfg, fresh) ==
    IF cfg.kind = "absent"
    THEN ListOf(<<[addr |-> fresh, conf |-> DefaultConf]>>)
    ELSE cfg

\* The addresses the default dict of line 138 may get; the dict is used only
\* when the key is absent.
DefaultAddrs(cfg) == IF cfg.kind = "absent" THEN FreeAddrs(cfg) ELSE {AddrBase}

\* Line 139: `not config` is true of False and of the empty list.
Falsy(cfg) == cfg.list = <<>>

NoRec == [outcome |-> "none", err |-> "", added |-> {}, removed |-> {},
          configured |-> {}, unchanged |-> FALSE, call |-> "none"]

\* scheduler.start(): raises SchedulerAlreadyRunningError on a running scheduler.
start(sch) ==
    [running |-> TRUE, call |-> "start",
     err |-> IF sch.running THEN "SchedulerAlreadyRunningError" ELSE ""]

\* scheduler.shutdown(): raises SchedulerNotRunningError on a stopped scheduler.
shutdown(sch) ==
    [running |-> FALSE, call |-> "shutdown",
     err |-> IF sch.running THEN "" ELSE "SchedulerNotRunningError"]

\* A handler that leaves the scheduler alone.
NoCall(sch) == [running |-> sch.running, call |-> "none", err |-> ""]

\* A test that passes whenever there is a scheduler, running or not.
Created(sch) == sch.exists

\* Lines 171 and 177: `scheduler and scheduler.running`.
Active(sch) == sch.exists /\ sch.running

\* A test that finds no id among the stored ones.
ExistingNone(jid, existing_job_ids) == FALSE

\* Line 149: `jid in existing_job_ids`.
Existing(jid, existing_job_ids) == jid \in existing_job_ids

\* Lines 146-159: the loop over the configured schedules, from item i on.  acc
\* is [jobs, added, configured, err]; an exception ends the loop (and the
\* handler) with the jobs added so far left in the store.
RECURSIVE AddJobs(_, _, _, _, _)
AddJobs(items, i, existing_job_ids, acc, t) ==
    IF i > Len(items) \/ acc.err # "" THEN acc
    ELSE
      LET job_config == items[i].conf
          jid == JobIdOf(items[i])
          seen == [acc EXCEPT !.configured = acc.configured \cup {jid}]
      IN IF Existing(jid, existing_job_ids)
         THEN AddJobs(items, i + 1, existing_job_ids, seen, t)
         ELSE IF "interval" \notin DOMAIN job_config /\ "schedule" \notin DOMAIN job_config
         THEN [seen EXCEPT !.err = "KeyError"]
         ELSE IF "tasks" \notin DOMAIN job_config
         THEN [seen EXCEPT !.err = "KeyError"]
         ELSE IF jid \in JobIds(seen.jobs)
         THEN [seen EXCEPT !.err = "ConflictingIdError"]
         ELSE AddJobs(items, i + 1, existing_job_ids,
                      [seen EXCEPT !.jobs = seen.jobs \cup {NewJob(jid, job_config, t)},
                                   !.added = seen.added \cup {jid}], t)

\* A removal loop that removes nothing.
RemoveJobsNone(js, existing_job_ids, configured_job_ids) == js

\* Lines 161-163: remove the jobs no longer in the config.
RemoveJobs(js, existing_job_ids, configured_job_ids) ==
    {j \in js : ~(j.id \in existing_job_ids /\ j.id \notin configured_job_ids)}

\* setup_jobs, lines 132-166, run on `schedules` value cfg, scheduler sch and
\* job store js at time t: [jobs, running, rec].
setup_jobs(daemon, cfg, pr, sch, js, t, fresh) ==
    LET desired == Desired(cfg, fresh)
        same == (pr = cfg)
    IN IF ~daemon
       THEN [jobs |-> js, running |-> sch.running,
             rec |-> [NoRec EXCEPT !.outcome = "not_daemon", !.unchanged = same]]
       ELSE IF Falsy(desired)
       THEN LET s == IF sch.running THEN shutdown(sch) ELSE NoCall(sch)
            IN [jobs |-> js, running |-> s.running,
                rec |-> [NoRec EXCEPT !.outcome = "disabled", !.unchanged = same,
                                      !.call = s.call, !.err = s.err]]
       ELSE
         LET existing_job_ids == JobIds(js)
             acc == AddJobs(desired.list, 1, existing_job_ids,
                            [jobs |-> js, added |-> {}, configured |-> {}, err |-> ""], t)
             removed == {jid \in existing_job_ids : jid \notin acc.configured}
         IN IF acc.err # ""
            THEN [jobs |-> acc.jobs, running |-> sch.running,
                  rec |-> [outcome |-> "error", err |-> acc.err, added |-> acc.added,
                           removed |-> {}, configured |-> acc.configured,
                           unchanged |-> same, call |-> "none"]]
            ELSE LET s == IF ~sch.running THEN start(sch) ELSE NoCall(sch)
                 IN [jobs |-> RemoveJobs(acc.jobs, existing_job_ids, acc.configured),
                     running |-> s.running,
                     rec |-> [outcome |-> "done", err |-> s.err, added |-> acc.added,
                              removed |-> removed, configured |-> acc.configured,
                              unchanged |-> same, call |-> s.call]]

\* ------------------------------------------------------------- the manager
\* manager.save_config(): writes the configuration to its file, or raises and
\* leaves the file as it was.
save_config(cfg, file, ok) == IF ok THEN Contents(cfg) ELSE file

\* manager.config_changed(): fires manager.config_updated, whose handler is
\* setup_jobs; an exception of the handler reaches the caller.
config_changed(cfg, pr, sch, js, t, fresh) == setup_jobs(TRUE, cfg, pr, sch, js, t, fresh)

\* The injective assignments of addresses to the n dicts a load allocates.
AddrSeqs(n) == {s \in [1..n -> Addrs] : \A i, j \in 1..n : s[i] = s[j] => i = j}

\* The configuration a process holds after loading file: the dicts of the
\* file, each at an address of its own.
Loaded(file, as) ==
    [kind |-> file.kind,
     list |-> [i \in 1..Len(file.list) |-> [addr |-> as[i], conf |-> file.list[i]]]]

\* -------------------------------------------------------------------- Init
\* The sequences over S of length at most n.
SeqsUpTo(S, n) == UNION {[1..k -> S] : k \in 0..n}

\* The contents of a configuration file that passes main_schema, or lacks the key.
Files ==
    {Absent, Disabled} \cup {ListOf(l) : l \in SeqsUpTo(FileConfigs, MaxSchedules)}

Event(op) == [op |-> op, code |-> 0, id |-> 0, input |-> EmptyDict,
              schedule |-> EmptyDict, listing |-> <<>>, msg |-> "", save |-> "none",
              follows |-> "", rec |-> NoRec]

\* A process that has loaded its configuration file; the job store is the one
\* of a new installation.
InitWith(tzs) ==
    /\ is_daemon \in BOOLEAN
    /\ tzlocal \in tzs
    /\ saved \in Files
    /\ \E as \in AddrSeqs(Len(saved.list)) : config = Loaded(saved, as)
    /\ scheduler = [exists |-> FALSE, running |-> FALSE, timezone |-> "none"]
    /\ jobs = {}
    /\ now = 0
    /\ prev = NoPrev
    /\ last = Event("load")
    /\ requests = 0
    /\ threads = [t \in Threads |-> Idle]
    /\ run = NoRun

\* On a machine whose local timezone has a name.
Init == InitWith({"named"})

\* ---------------------------------------------------------- event handlers
\* The exceptions of tzlocal.get_localzone() among its outcomes.
TzErrors == {"UnknownTimeZoneError", "struct.error"}

\* An except clause for pytz.UnknownTimeZoneError alone.
CaughtUnknownOnly == {"UnknownTimeZoneError"}

\* Lines 114 and 116: the exceptions the try statement catches.
Caught == {"UnknownTimeZoneError", "struct.error"}

\* Lines 110-126: [err, zone], the exception that leaves the try statement, if
\* any, and else the timezone of the scheduler: None becomes pytz.utc.
Resolve(outcome) ==
    LET timezone == IF outcome \in TzErrors THEN "None"
                    ELSE IF outcome = "local" THEN "None"
                    ELSE "Europe/Helsinki"
    IN IF outcome \in TzErrors \ Caught
       THEN [err |-> outcome, zone |-> "none"]
       ELSE [err |-> "", zone |-> IF timezone = "None" THEN "UTC" ELSE timezone]

\* Lines 110-126: the scheduler's timezone for an outcome of tzlocal.
Timezone(outcome) == Resolve(outcome).zone

\* manager.daemon.started: setup_scheduler, lines 101-128.
setup_scheduler ==
    /\ is_daemon
    /\ ~scheduler.exists
    /\ IF Resolve(tzlocal).err # ""
       THEN /\ last' = [Event("daemon.started") EXCEPT
                          !.rec = [NoRec EXCEPT !.err = Resolve(tzlocal).err]]
            /\ UNCHANGED <<scheduler, jobs, prev>>
       ELSE /\ \E fresh \in DefaultAddrs(config) :
                 LET sch == [exists |-> TRUE, running |-> FALSE,
                             timezone |-> Timezone(tzlocal)]
                     r == setup_jobs(is_daemon, config, prev, sch, jobs, now, fresh)
                 IN /\ scheduler' = [sch EXCEPT !.running = r.running]
                    /\ jobs' = r.jobs
                    /\ last' = [Event("daemon.started") EXCEPT !.rec = r.rec]
            /\ prev' = config
    /\ UNCHANGED <<threads, run, requests, is_daemon, tzlocal, config, saved, now>>

\* manager.config_updated: setup_jobs, lines 131-166.  A daemon fires the
\* event only once it has started (the scheduler exists).
config_updated ==
    /\ is_daemon => scheduler.exists
    /\ \E fresh \in DefaultAddrs(config) :
         LET r == setup_jobs(is_daemon, config, prev, scheduler, jobs, now, fresh)
         IN /\ scheduler' = [scheduler EXCEPT !.running = r.running]
            /\ jobs' = r.jobs
            /\ last' = [Event("config_updated") EXCEPT !.rec = r.rec]
    /\ prev' = config
    /\ UNCHANGED <<threads, run, requests, is_daemon, tzlocal, config, saved, now>>

\* History: the handler that ran just before this one, when it shut the
\* scheduler down.
Stopped == IF last.rec.call = "shutdown" THEN last.op ELSE ""

\* manager.shutdown_requested, lines 169-172.
shutdown_requested ==
    /\ LET s == IF Active(scheduler) THEN shutdown(scheduler) ELSE NoCall(scheduler)
       IN /\ scheduler' = [scheduler EXCEPT !.running = s.running]
          /\ last' = [Event("shutdown_requested") EXCEPT
                        !.rec = [NoRec EXCEPT !.call = s.call, !.err = s.err],
                        !.follows = Stopped]
    /\ UNCHANGED <<threads, run, requests, is_daemon, tzlocal, config, saved, jobs, now, prev>>

\* manager.shutdown, lines 175-178.
stop_scheduler ==
    /\ LET s == IF Active(scheduler) THEN shutdown(scheduler) ELSE NoCall(scheduler)
       IN /\ scheduler' = [scheduler EXCEPT !.running = s.running]
          /\ last' = [Event("shutdown") EXCEPT
                        !.rec = [NoRec EXCEPT !.call = s.call, !.err = s.err],
                        !.follows = Stopped]
    /\ UNCHANGED <<threads, run, requests, is_daemon, tzlocal, config, saved, jobs, now, prev>>

\* The process ends and a new one starts: the module global is None again
\* (line 85), the configuration is loaded into new dicts from its file, which
\* the user may have edited meanwhile, and the job store is the one the old
\* process left.  A file that fails main_schema is not loaded.
Restart ==
    /\ \E file \in {saved} \cup Files :
         /\ file.kind = "absent" \/ main_schema(file)
         /\ saved' = file
         /\ \E as \in AddrSeqs(Len(file.list)) : config' = Loaded(file, as)
    /\ scheduler' = [exists |-> FALSE, running |-> FALSE, timezone |-> "none"]
    /\ prev' = NoPrev
    /\ last' = Event("restart")
    /\ UNCHANGED <<threads, run, requests, is_daemon, tzlocal, jobs, now>>

\* Time passes.
Tick ==
    /\ now < MaxTime
    /\ now' = now + 1
    /\ last' = Event("tick")
    /\ UNCHANGED <<threads, run, requests, is_daemon, tzlocal, config, saved, scheduler, jobs, prev>>

\* ------------------------------------------------------------ the CRUD API
\* _schedule_by_id, lines 186-191: a copy of the schedule with its id, or None;
\* iterating over `schedules: no` (False) raises TypeError.
_schedule_by_id(cfg, schedule_id) ==
    IF cfg.kind = "false" THEN [err |-> "TypeError", found |-> FALSE, schedule |-> EmptyDict]
    ELSE IF \E i \in 1..Len(cfg.list) : cfg.list[i].addr = schedule_id
    THEN LET i == CHOOSE k \in 1..Len(cfg.list) : cfg.list[k].addr = schedule_id
         IN [err |-> "", found |-> TRUE,
             schedule |-> DictUpdate(cfg.list[i].conf, [id |-> schedule_id])]
    ELSE [err |-> "", found |-> FALSE, schedule |-> EmptyDict]

\* scheduler.get_job(id), line 235: the stored job with that id, if any.
get_job(js, jid) == {j \in js : j.id = jid}

Response(op, code, sid, input, schedule, msg) ==
    [op |-> op, code |-> code, id |-> sid, input |-> input, schedule |-> schedule,
     listing |-> <<>>, msg |-> msg, save |-> "none", follows |-> "", rec |-> NoRec]

\* Lines 224-226, 264-266 and 276-278: save the configuration, signal the
\* change and answer.  An exception of save_config or of the handler of the
\* event ends the request with a 500; what was done before stays done.
SaveAndSignal(cfg, ok, resp) ==
    /\ requests < MaxRequests
    /\ requests' = requests + 1
    /\ config' = cfg
    /\ saved' = save_config(cfg, saved, ok)
    /\ IF ~ok
       THEN /\ last' = [resp EXCEPT !.code = 500, !.schedule = EmptyDict,
                                    !.msg = "save_config", !.save = "failed"]
            /\ UNCHANGED <<scheduler, jobs, prev>>
       ELSE LET r == config_changed(cfg, prev, scheduler, jobs, now, AddrBase)
            IN /\ scheduler' = [scheduler EXCEPT !.running = r.running]
               /\ jobs' = r.jobs
               /\ prev' = cfg
               /\ last' = IF r.rec.outcome = "error"
                          THEN [resp EXCEPT !.code = 500, !.schedule = EmptyDict,
                                            !.msg = r.rec.err, !.save = "ok", !.rec = r.rec]
                          ELSE [resp EXCEPT !.save = "ok", !.rec = r.rec]
    /\ UNCHANGED <<threads, run, is_daemon, tzlocal, now>>

\* GET /schedules/, lines 196-208.
list_schedules ==
    /\ scheduler.exists
    /\ last' = [Response("list", 200, 0, EmptyDict, EmptyDict, "") EXCEPT
                  !.listing = IF config.kind # "list" \/ config.list = <<>> THEN <<>>
                              ELSE [i \in 1..Len(config.list) |->
                                      DictUpdate(config.list[i].conf,
                                                 [id |-> config.list[i].addr])]]
    /\ UNCHANGED <<threads, run, requests, is_daemon, tzlocal, config, saved, scheduler, jobs, now, prev>>

\* POST /schedules/, lines 210-226, with request.json['schedule'] = data, a dict
\* the request allocated at address a.
create_schedule(data, a, ok) ==
    /\ scheduler.exists
    /\ a \in FreeAddrs(config)
    /\ Len(config.list) < MaxSchedules
    /\ LET base == IF config.kind # "list" \/ config.list = <<>> THEN <<>> ELSE config.list
           cfg == ListOf(Append(base, [addr |-> a, conf |-> data]))
           new_schedule == _schedule_by_id(cfg, a)
       IN IF ~new_schedule.found
          THEN /\ config' = cfg
               /\ last' = Response("create", 500, a, data, EmptyDict,
                                   "schedule went missing after add")
               /\ UNCHANGED <<threads, run, requests, is_daemon, tzlocal, saved, scheduler, jobs, now, prev>>
          ELSE SaveAndSignal(cfg, ok,
                             Response("create", 200, a, data, new_schedule.schedule, ""))

\* History: the request answered just before this one, when it created or
\* deleted the schedule this one asks for.
Follows(schedule_id) ==
    IF last.id = schedule_id /\ last.op = "create" /\ last.code = 200 THEN "create"
    ELSE IF last.id = schedule_id /\ last.op = "delete" /\ last.save # "none" THEN "delete"
    ELSE ""

\* GET /schedules/<id>/, lines 229-239.
get_schedule(schedule_id) ==
    /\ scheduler.exists
    /\ LET schedule == _schedule_by_id(config, schedule_id)
           job == get_job(jobs, Unicode(schedule_id))
           resp ==
            IF schedule.err # ""
            THEN Response("get", 500, schedule_id, EmptyDict, EmptyDict, schedule.err)
            ELSE IF ~schedule.found
            THEN Response("get", 400, schedule_id, EmptyDict, EmptyDict, "invalid schedule id")
            ELSE IF job # {}
            THEN Response("get", 200, schedule_id, EmptyDict,
                          DictUpdate(schedule.schedule,
                                     [next_run_time |->
                                        (CHOOSE j \in job : TRUE).next_run_time]), "")
            ELSE Response("get", 200, schedule_id, EmptyDict, schedule.schedule, "")
       IN last' = [resp EXCEPT !.follows = Follows(schedule_id)]
    /\ UNCHANGED <<threads, run, requests, is_daemon, tzlocal, config, saved, scheduler, jobs, now, prev>>

\* What a client submits with a POST (a whole config) and with a PATCH.
Submitted(method) == IF method = "POST" THEN SubmittedConfigs ELSE PatchConfigs

\* POST (replace) and PATCH (update) /schedules/<id>/, lines 242-268, with
\* request.json['schedule'] = data and save_config succeeding or not.
update_schedule(schedule_id, method) ==
    /\ scheduler.exists
    /\ LET op == IF method = "POST" THEN "replace" ELSE "update"
       IN IF config.kind = "false"
          THEN /\ last' = Response(op, 500, schedule_id, EmptyDict, EmptyDict, "TypeError")
               /\ UNCHANGED <<threads, run, requests, is_daemon, tzlocal, config, saved, scheduler, jobs, now, prev>>
          ELSE IF \A i \in 1..Len(config.list) : config.list[i].addr # schedule_id
          THEN /\ last' = Response(op, 400, schedule_id, EmptyDict, EmptyDict, "Invalid id")
               /\ UNCHANGED <<threads, run, requests, is_daemon, tzlocal, config, saved, scheduler, jobs, now, prev>>
          ELSE \E data \in Submitted(method), ok \in BOOLEAN :
            LET i == CHOOSE k \in 1..Len(config.list) : config.list[k].addr = schedule_id
                new_schedule == IF "id" \in DOMAIN data THEN DictDel(data, "id") ELSE data
                cleared == IF method = "POST" THEN EmptyDict ELSE config.list[i].conf
                cfg == [config EXCEPT !.list[i].conf = DictUpdate(cleared, new_schedule)]
                found == _schedule_by_id(cfg, schedule_id)
            IN IF ~found.found
               THEN /\ config' = cfg
                    /\ last' = Response(op, 500, schedule_id, data, EmptyDict,
                                        "schedule went missing after update")
                    /\ UNCHANGED <<threads, run, requests, is_daemon, tzlocal, saved, scheduler, jobs, now, prev>>
               ELSE SaveAndSignal(cfg, ok,
                                  Response(op, 200, schedule_id, data, found.schedule, ""))

\* del list[-1]: the last entry goes, whatever i is.
ListDelLast(l, i) == SubSeq(l, 1, Len(l) - 1)

\* del list[i]
ListDel(l, i) == [k \in 1..(Len(l) - 1) |-> IF k < i THEN l[k] ELSE l[k + 1]]

\* DELETE /schedules/<id>/, lines 271-280.
delete_schedule(schedule_id) ==
    /\ scheduler.exists
    /\ IF config.kind = "false"
       THEN /\ last' = Response("delete", 500, schedule_id, EmptyDict, EmptyDict, "TypeError")
            /\ UNCHANGED <<threads, run, requests, is_daemon, tzlocal, config, saved, scheduler, jobs, now, prev>>
       ELSE IF \A i \in 1..Len(config.list) : config.list[i].addr # schedule_id
       THEN /\ last' = Response("delete", 400, schedule_id, EmptyDict, EmptyDict,
                                "invalid schedule id")
            /\ UNCHANGED <<threads, run, requests, is_daemon, tzlocal, config, saved, scheduler, jobs, now, prev>>
       ELSE \E ok \in BOOLEAN :
         LET i == CHOOSE k \in 1..Len(config.list) : config.list[k].addr = schedule_id
             cfg == [config EXCEPT !.list = ListDel(config.list, i)]
         IN SaveAndSignal(cfg, ok,
                          Response("delete", 400, schedule_id, EmptyDict, EmptyDict,
                                   "deleted schedule"))

\* ---------------------------------------------------------------- the system
Next ==
    \/ setup_scheduler
    \/ config_updated
    \/ shutdown_requested
    \/ stop_scheduler
    \/ Restart
    \/ Tick
    \/ list_schedules
    \/ \E data \in SubmittedConfigs, a \in Addrs, ok \in BOOLEAN : create_schedule(data, a, ok)
    \/ \E sid \in Addrs : get_schedule(sid)
    \/ \E sid \in Addrs, method \in {"POST", "PATCH"} : update_schedule(sid, method)
    \/ \E sid \in Addrs : delete_schedule(sid)

Spec == Init /\ [][Next]_vars

\* Jobs an earlier process may have left in the job store.
StoredJobs == {NewJob(Unicode(a), ConfHourly, 0) : a \in Addrs}

\* Files that hold a cron schedule, alone and after an interval schedule.
MixedFiles ==
    {ListOf(l) : l \in {<<ConfCron>>, <<ConfHourly, ConfCron>>}}

\* A process that has loaded its configuration file and finds whatever job
\* store earlier processes left.
InitAnyStore ==
    /\ is_daemon \in BOOLEAN
    /\ tzlocal = "named"
    /\ saved \in Files \cup MixedFiles
    /\ \E as \in AddrSeqs(Len(saved.list)) : config = Loaded(saved, as)
    /\ scheduler = [exists |-> FALSE, running |-> FALSE, timezone |-> "none"]
    /\ jobs \in SUBSET StoredJobs
    /\ now = 0
    /\ prev = NoPrev
    /\ last = Event("load")
    /\ requests = 0
    /\ threads = [t \in Threads |-> Idle]
    /\ run = NoRun

\* The lifecycle events alone: the reconciliations of the configurations a file
\* can hold, against any job store.
NextEvents ==
    \/ setup_scheduler
    \/ config_updated
    \/ shutdown_requested
    \/ stop_scheduler
    \/ Restart
    \/ Tick

\* The lifecycle events without the clock: job ids do not depend on it.
NextReconcile ==
    \/ setup_scheduler
    \/ config_updated
    \/ shutdown_requested
    \/ stop_scheduler
    \/ Restart

SpecReconcile == InitAnyStore /\ [][NextReconcile]_vars

\* The start and the shutdown of a daemon on a machine of any timezone setup.
NextStart ==
    \/ setup_scheduler
    \/ config_updated
    \/ shutdown_requested
    \/ stop_scheduler

SpecTimezone == InitWith(TzOutcomes) /\ [][NextStart]_vars

\* The lifecycle events of an installation from its first start on.
SpecLifecycle == Init /\ [][NextEvents]_vars

\* A started daemon serving API requests alone.
NextApi ==
    \/ setup_scheduler
    \/ list_schedules
    \/ \E data \in SubmittedConfigs, a \in Addrs, ok \in BOOLEAN : create_schedule(data, a, ok)
    \/ \E sid \in Addrs : get_schedule(sid)
    \/ \E sid \in Addrs, method \in {"POST", "PATCH"} : update_schedule(sid, method)
    \/ \E sid \in Addrs : delete_schedule(sid)

SpecApi == Init /\ [][NextApi]_vars

\* A started daemon serving List, Create, Get and Delete requests.
NextCrud ==
    \/ setup_scheduler
    \/ list_schedules
    \/ \E data \in SubmittedConfigs, a \in Addrs, ok \in BOOLEAN : create_schedule(data, a, ok)
    \/ \E sid \in Addrs : get_schedule(sid)
    \/ \E sid \in Addrs : delete_schedule(sid)

SpecCrud == Init /\ [][NextCrud]_vars

\* ------------------------------------------- setup_jobs on two threads
\* setup_jobs takes no lock (lines 131-166), so when the handlers of two
\* manager.config_updated events run on different threads their statements
\* interleave.  Each action below is one statement (or one loop iteration)
\* of setup_jobs on thread t; threads[t] holds its local variables.

\* A thread that has left setup_jobs, by return or by an exception.
Left(err) == [Idle EXCEPT !.pc = IF err = "" THEN "done" ELSE "raised", !.err = err]

\* The addresses the default list of line 138 may get on a thread: not the
\* address of a dict another thread still holds.
ThreadFresh ==
    IF config.kind = "absent"
    THEN FreeAddrs(config) \ UNION {LiveAddrs(ListOf(threads[u].config)) : u \in Threads}
    ELSE {AddrBase}

\* The locals after an iteration of the loop of lines 146-159: past the last
\* item the removal loop is next, or, with nothing to remove, line 164.
AfterAdd(l) ==
    IF l.i <= Len(l.config) THEN l
    ELSE LET todo == l.existing_job_ids \ l.configured_job_ids
         IN [l EXCEPT !.todo = todo, !.pc = IF todo = {} THEN "start" ELSE "remove"]

\* Lines 134-145: the daemon check, the read of the config, the disabled
\* branch, and the read of the ids of the stored jobs.
setup_jobs_read(t) ==
    /\ threads[t].pc = "idle"
    /\ \E fresh \in ThreadFresh :
         LET desired == Desired(config, fresh)
         IN IF ~is_daemon
            THEN /\ threads' = [threads EXCEPT ![t] = Left("")]
                 /\ UNCHANGED scheduler
            ELSE IF Falsy(desired)
            THEN /\ threads' = [threads EXCEPT ![t] = Left("")]
                 /\ scheduler' = [scheduler EXCEPT !.running = FALSE]
            ELSE /\ threads' = [threads EXCEPT ![t] =
                                  [Idle EXCEPT !.pc = "add", !.config = desired.list,
                                               !.existing_job_ids = JobIds(jobs), !.i = 1]]
                 /\ UNCHANGED scheduler
    /\ UNCHANGED <<run, requests, is_daemon, tzlocal, config, saved, jobs, now, prev, last>>

\* Lines 146-159: one iteration of the loop over the configured schedules.
setup_jobs_add(t) ==
    /\ threads[t].pc = "add"
    /\ LET l == threads[t]
           job_config == l.config[l.i].conf
           jid == JobIdOf(l.config[l.i])
           seen == [l EXCEPT !.configured_job_ids = @ \cup {jid}, !.i = @ + 1]
       IN IF jid \in l.existing_job_ids
          THEN /\ threads' = [threads EXCEPT ![t] = AfterAdd(seen)]
               /\ UNCHANGED jobs
          ELSE IF \/ "interval" \notin DOMAIN job_config /\ "schedule" \notin DOMAIN job_config
                  \/ "tasks" \notin DOMAIN job_config
          THEN /\ threads' = [threads EXCEPT ![t] = Left("KeyError")]
               /\ UNCHANGED jobs
          ELSE IF jid \in JobIds(jobs)
          THEN /\ threads' = [threads EXCEPT ![t] = Left("ConflictingIdError")]
               /\ UNCHANGED jobs
          ELSE /\ threads' = [threads EXCEPT ![t] = AfterAdd(seen)]
               /\ jobs' = jobs \cup {NewJob(jid, job_config, now)}
    /\ UNCHANGED <<run, requests, is_daemon, tzlocal, config, saved, scheduler, now, prev, last>>

\* Lines 161-163: one iteration of the removal loop, over the ids read at line
\* 144 in the order get_jobs returned them (any order here).
setup_jobs_remove(t) ==
    /\ threads[t].pc = "remove"
    /\ \E jid \in threads[t].todo :
         IF jid \notin JobIds(jobs)
         THEN /\ threads' = [threads EXCEPT ![t] = Left("JobLookupError")]
              /\ UNCHANGED jobs
         ELSE /\ jobs' = {j \in jobs : j.id # jid}
              /\ threads' = [threads EXCEPT ![t] =
                               [@ EXCEPT !.todo = @ \ {jid},
                                         !.pc = IF threads[t].todo = {jid}
                                                THEN "start" ELSE "remove"]]
    /\ UNCHANGED <<run, requests, is_daemon, tzlocal, config, saved, scheduler, now, prev, last>>

\* Line 164: the test of scheduler.running.
setup_jobs_running(t) ==
    /\ threads[t].pc = "start"
    /\ threads' = [threads EXCEPT ![t] =
                     IF scheduler.running THEN Left("") ELSE [@ EXCEPT !.pc = "starting"]]
    /\ UNCHANGED <<run, requests, is_daemon, tzlocal, config, saved, scheduler, jobs, now,
                   prev, last>>

\* Lines 165-166: scheduler.start(), which raises SchedulerAlreadyRunningError
\* on a running scheduler.
setup_jobs_start(t) ==
    /\ threads[t].pc = "starting"
    /\ IF scheduler.running
       THEN /\ threads' = [threads EXCEPT ![t] = Left("SchedulerAlreadyRunningError")]
            /\ UNCHANGED scheduler
       ELSE /\ threads' = [threads EXCEPT ![t] = Left("")]
            /\ scheduler' = [scheduler EXCEPT !.running = TRUE]
    /\ UNCHANGED <<run, requests, is_daemon, tzlocal, config, saved, jobs, now, prev, last>>

\* A started daemon whose configuration has just changed under a job store
\* that earlier reconciliations and processes left, with a
\* manager.config_updated event to handle on each thread.
InitConcurrent ==
    /\ is_daemon = TRUE
    /\ tzlocal = "named"
    /\ saved \in Files
    /\ \E as \in AddrSeqs(Len(saved.list)) : config = Loaded(saved, as)
    /\ scheduler \in {[exists |-> TRUE, running |-> r, timezone |-> Timezone(tzlocal)] :
                        r \in BOOLEAN}
    /\ jobs \in SUBSET StoredJobs
    /\ now = 0
    /\ prev = NoPrev
    /\ last = Event("config_updated")
    /\ requests = 0
    /\ threads = [t \in Threads |-> Idle]
    /\ run = NoRun

NextConcurrent ==
    \/ \E t \in Threads : setup_jobs_read(t)
    \/ \E t \in Threads : setup_jobs_add(t)
    \/ \E t \in Threads : setup_jobs_remove(t)
    \/ \E t \in Threads : setup_jobs_running(t)
    \/ \E t \in Threads : setup_jobs_start(t)

SpecConcurrent == InitConcurrent /\ [][NextConcurrent]_vars

\* ------------------------------------------------------------- run_job
\* run_job, lines 93-98, on a worker thread of the scheduler.  run is
\* [pc, submitted, finished_events, waiting, fired]: the calls of
\* manager.execute made, the number of (task_id, event) pairs the last one
\* returned, the index of the pair the loop of line 97 is at, and the events
\* set so far, in the order they were set.

\* The events set so far.
Fired == {run.fired[k] : k \in 1..Len(run.fired)}

\* A loop that ends after its first iteration.
LoopBroken(r) == r.waiting > 1 \/ r.waiting > r.finished_events

\* Line 97: the loop has gone through every pair of finished_events.
LoopDone(r) == r.waiting > r.finished_events

\* Line 96: a job of the running scheduler fires and run_job submits its
\* tasks; manager.execute returns a completion event for each task it queued.
run_job_execute ==
    /\ scheduler.exists /\ scheduler.running
    /\ run.pc = "idle"
    /\ \E j \in jobs, n \in 0..MaxEvents :
         run' = [pc |-> "waiting",
                 submitted |-> Append(run.submitted,
                                      [options |-> [tasks |-> j.args, cron |-> TRUE],
                                       priority |-> 5]),
                 finished_events |-> n, waiting |-> 1, fired |-> <<>>]
    /\ UNCHANGED <<threads, requests, is_daemon, tzlocal, config, saved, scheduler, jobs,
                   now, prev, last>>

\* The execution engine finishes a task and sets its event.
event_set(e) ==
    /\ run.pc = "waiting"
    /\ e \in 1..run.finished_events
    /\ e \notin Fired
    /\ run' = [run EXCEPT !.fired = Append(@, e)]
    /\ UNCHANGED <<threads, requests, is_daemon, tzlocal, config, saved, scheduler, jobs,
                   now, prev, last>>

\* Lines 97-98: event.wait() on the pair the loop is at returns once that
\* event is set; past the last pair run_job returns.
run_job_wait ==
    /\ run.pc = "waiting"
    /\ IF LoopDone(run)
       THEN run' = [run EXCEPT !.pc = "returned"]
       ELSE /\ run.waiting \in Fired
            /\ run' = [run EXCEPT !.waiting = @ + 1]
    /\ UNCHANGED <<threads, requests, is_daemon, tzlocal, config, saved, scheduler, jobs,
                   now, prev, last>>

NextRun ==
    \/ setup_scheduler
    \/ run_job_execute
    \/ \E e \in 1..MaxEvents : event_set(e)
    \/ run_job_wait

\* A daemon starts and one of its jobs fires.  The execution engine finishes
\* every task it queued, and the worker thread keeps running.
SpecRun ==
    /\ Init
    /\ [][NextRun]_vars
    /\ WF_vars(\E e \in 1..MaxEvents : event_set(e))
    /\ WF_vars(run_job_wait)

\* ------------------------------------------------- validation of a file
\* The shapes of one entry of `schedules`: every combination of a `tasks`
\* value, an `interval` value, a `schedule` value and an unknown key, each
\* present or not, well-formed or not.
TasksParts ==
    {EmptyDict, [tasks |-> [list |-> <<"tv">>]], [tasks |-> [str |-> "tv"]],
     [tasks |-> [num |-> 1]]}
IntervalParts ==
    {EmptyDict, [interval |-> [hours |-> 1]], [interval |-> [hours |-> 1, days |-> 1]],
     [interval |-> EmptyDict], [interval |-> [bogus |-> 1]]}
ScheduleParts ==
    {EmptyDict, [schedule |-> [hour |-> 3]], [schedule |-> EmptyDict],
     [schedule |-> [bogus |-> 1]]}
ExtraParts == {EmptyDict, [bogus |-> 1]}

Entries ==
    {DictUpdate(DictUpdate(DictUpdate(t, i), s), x) :
        t \in TasksParts, i \in IntervalParts, s \in ScheduleParts, x \in ExtraParts}

\* A configuration file with one entry of any shape, not yet validated.
InitSchema ==
    /\ is_daemon = FALSE
    /\ tzlocal = "named"
    /\ saved \in {ListOf(<<e>>) : e \in Entries}
    /\ config = Absent
    /\ scheduler = [exists |-> FALSE, running |-> FALSE, timezone |-> "none"]
    /\ jobs = {}
    /\ now = 0
    /\ prev = NoPrev
    /\ last = Event("load")
    /\ requests = 0
    /\ threads = [t \in Threads |-> Idle]
    /\ run = NoRun

\* The `schedules` key of the file is validated against main_schema, the
\* schema register_config registers for it (lines 181-183).
validate_config ==
    /\ last.op = "load"
    /\ last' = [Event("validate") EXCEPT
                  !.input = saved.list[1],
                  !.msg = IF main_schema(saved) THEN "valid" ELSE "SchemaError"]
    /\ UNCHANGED <<threads, run, requests, is_daemon, tzlocal, config, saved, scheduler, jobs, now, prev>>

SpecSchema == InitSchema /\ [][validate_config]_vars

\* ================================================================== claims
Objects(cfg) == {cfg.list[i] : i \in 1..Len(cfg.list)}

\* What the handler of the last step reconciled, if it got that far.
Reconciled == last.rec.outcome = "done"

\* A schedule dict as a client sees it, without the keys the API adds.
ConfigOf(schedule) ==
    [k \in DOMAIN schedule \ {"id", "next_run_time"} |-> schedule[k]]

\* What a stored job runs and when, apart from its id and next run time.
JobContent(j) == <<j.args, j.name, j.trigger, j.trigger_args>>

\* The job store holds exactly the jobs of the schedules of cfg, id aside.
StoreMatches(cfg, js) ==
    /\ cfg.kind = "list"
    /\ cfg.list # <<>>
    /\ \A o \in Objects(cfg) : ValidItem(o.conf)
    /\ Cardinality(js) = Len(cfg.list)
    /\ \A o \in Objects(cfg) :
         \E j \in js : JobContent(j) = JobContent(NewJob(j.id, o.conf, 0))
    /\ \A j \in js :
         \E o \in Objects(cfg) : JobContent(j) = JobContent(NewJob(j.id, o.conf, 0))

\* C1: after setup_jobs has run to its end on an enabled, non-empty schedule
\* list, whatever the job store held, the ids of the stored jobs are exactly the
\* ids of the configured schedules: the observed ids that were not configured
\* are gone and the configured ids that were not observed are there.
C1_StoreEqualsDesired ==
    Reconciled =>
        /\ JobIds(jobs) = last.rec.configured
        /\ Cardinality(jobs) = Cardinality(JobIds(jobs))
        /\ config.kind = "list" => last.rec.configured = {JobIdOf(o) : o \in Objects(config)}
        /\ config.kind = "absent" => Cardinality(last.rec.configured) = 1
        /\ last.rec.added \subseteq JobIds(jobs)
        /\ last.rec.removed \cap JobIds(jobs) = {}

\* A reconciliation that both added a job and removed a stale one.
C1_Witness == Reconciled /\ last.rec.added # {} /\ last.rec.removed # {}

\* C2: a reconciliation that finds the configuration as the previous
\* reconciliation of the process left it adds no job, removes no job and leaves
\* every job's next run time as it was.
C2_Idempotent ==
    [][(last'.rec.outcome \in {"done", "disabled", "error"} /\ last'.rec.unchanged)
         => jobs' = jobs]_vars

\* C3: the reconciliation at the start of a process that finds, for a
\* configuration unchanged in content, the jobs an earlier process stored for
\* it, keeps them: it neither removes nor adds a job.
C3_StableAcrossRestart ==
    [][(last'.op = "daemon.started" /\ last'.rec.outcome = "done"
          /\ StoreMatches(config, jobs))
         => jobs' = jobs]_vars

\* C4: a reconciliation with `schedules: no` leaves no job in the job store,
\* adds none and leaves the scheduler stopped.
C4_DisableRemovesAll ==
    (last.rec.outcome = "disabled" /\ config.kind = "false") =>
        /\ jobs = {}
        /\ last.rec.added = {}
        /\ ~scheduler.running

\* C5: with the `schedules` key absent, the reconciliations do what they do on
\* the explicit list [{tasks: ['*'], interval: {hours: 1}}]: after a first
\* reconciliation with the key absent, a second one, wherever its default dict
\* is allocated, leaves the job store and the scheduler as the second
\* reconciliation of that explicit list (its dict where the first default dict
\* was) leaves them.
C5_DefaultSubstitution ==
    (Reconciled /\ config.kind = "absent") =>
        \A first \in Addrs : JobIdOf([addr |-> first]) \in last.rec.configured =>
            \A fresh \in Addrs :
                LET explicit == ListOf(<<[addr |-> first, conf |-> DefaultConf]>>)
                    a == setup_jobs(TRUE, config, config, scheduler, jobs, now, fresh)
                    e == setup_jobs(TRUE, explicit, explicit, scheduler, jobs, now, fresh)
                IN /\ a.jobs = e.jobs
                   /\ a.running = e.running
                   /\ a.rec.added = e.rec.added
                   /\ a.rec.removed = e.rec.removed

\* C6: a Get of the id a Create has just returned answers with the config that
\* was created, with its id; a Get of an id a Delete has just deleted answers
\* not found.
C6_CrudRoundTrip ==
    [][/\ (last.op = "create" /\ last.code = 200 /\ last'.op = "get" /\ last'.id = last.id)
            => /\ last'.code = 200
               /\ ConfigOf(last'.schedule) = last.input
               /\ last'.schedule["id"] = last.id
       /\ (last.op = "delete" /\ last.save # "none" /\ last'.op = "get" /\ last'.id = last.id)
            => /\ last'.code = 400
               /\ last'.msg = "invalid schedule id"]_vars

\* A Get answered right after the Create that returned its id.
C6_Witness == last.op = "get" /\ last.follows = "create" /\ last.code = 200

\* The trigger setup_jobs derives from a config that has one.
HasTrigger(conf) == "interval" \in DOMAIN conf \/ "schedule" \in DOMAIN conf

\* C7: after a Replace or an Update and the reconciliation it triggers, the
\* stored job of the schedule carries the trigger of the schedule's config.
C7_TriggerChangeApplied ==
    (last.op \in {"replace", "update"} /\ last.code = 200 /\ Reconciled) =>
        \A o \in Objects(config) :
            (o.addr = last.id /\ HasTrigger(o.conf) /\ "tasks" \in DOMAIN o.conf) =>
                \E j \in jobs :
                    /\ j.id = JobIdOf(o)
                    /\ j.trigger = NewJob(j.id, o.conf, now).trigger
                    /\ j.trigger_args = NewJob(j.id, o.conf, now).trigger_args

\* C8: after a Delete of an existing schedule and the reconciliation it
\* triggers, the job store holds no job with the id of the deleted schedule.
C8_DeleteRemovesJob ==
    (last.op = "delete" /\ last.save = "ok" /\ last.rec.outcome # "error") =>
        JobIdOf([addr |-> last.id]) \notin JobIds(jobs)

\* A request that submits a whole config, and a malformed one.
SubmitsMalformed(resp) ==
    resp.op \in {"create", "replace"} /\ resp.input # EmptyDict /\ ~ValidItem(resp.input)

\* C9: a Create, Replace, Update or Delete (of a well-formed config) whose save
\* fails leaves the schedule list as it was and signals no config-updated event.
C9_SaveFailureRollsBack ==
    [][(last'.save = "failed" /\ ~SubmitsMalformed(last'))
         => (config' = config /\ last'.rec.outcome = "none")]_vars

\* C10: a Create or a Replace that submits a malformed config is rejected with
\* an error, and changes neither the schedule list nor the configuration file
\* nor triggers a reconciliation (also when the save would succeed).
C10_MalformedRejected ==
    [][(SubmitsMalformed(last') /\ last'.save # "failed")
         => /\ last'.code \notin {0, 200}
            /\ config' = config
            /\ saved' = saved
            /\ last'.rec.outcome = "none"]_vars

\* Idempotence where the `schedules` key is present: the reconciliation of an
\* unchanged list, or of `schedules: no`, leaves the job store as it was.
IdempotentOnLists ==
    [][(last'.rec.outcome \in {"done", "disabled", "error"} /\ last'.rec.unchanged
          /\ config.kind # "absent")
         => jobs' = jobs]_vars

\* C11: validation accepts a schedule entry only if exactly one of `interval`
\* and `schedule` is present: an entry with both is rejected and an entry with
\* neither is rejected, whatever its other fields are.
C11_ExactlyOneTrigger ==
    last.op = "validate" =>
        LET conf == last.input
            both == "interval" \in DOMAIN conf /\ "schedule" \in DOMAIN conf
            neither == "interval" \notin DOMAIN conf /\ "schedule" \notin DOMAIN conf
        IN /\ both => last.msg = "SchemaError"
           /\ neither => last.msg = "SchemaError"
           /\ last.msg = "valid" => (~both /\ ~neither)

\* An entry with both triggers, each well-formed, and nothing else wrong, was
\* rejected.
C11_Witness ==
    /\ last.op = "validate"
    /\ last.msg = "SchemaError"
    /\ last.input = ConfBoth

\* The job store two reconciliations of cfg, one after the other, leave of js.
Sequential(cfg, js) ==
    LET first == setup_jobs(TRUE, cfg, cfg, scheduler, js, now, AddrBase)
    IN setup_jobs(TRUE, cfg, cfg, scheduler, first.jobs, now, AddrBase).jobs

\* C12: two manager.config_updated events handled on different threads
\* serialize: neither setup_jobs adds an id that is already stored nor removes
\* one that is already gone (no ConflictingIdError, no JobLookupError, no
\* second start), and when both have returned the job store holds exactly
\* the jobs of the configured schedules, as after two reconciliations in a row.
C12_ConcurrentSerializes ==
    /\ \A t \in Threads : threads[t].err = ""
    /\ (config.kind = "list" /\ config.list # <<>>
          /\ \A t \in Threads : threads[t].pc = "done")
         => jobs = Sequential(config, jobs)

\* C13: whatever lifecycle events come in whatever order, no handler calls
\* start() on a running scheduler or shutdown() on a stopped one, and none
\* raises: a shutdown after a shutdown, and `schedules: no` reconciled again,
\* do nothing.
C13_StartStopNoOps ==
    [][/\ last'.rec.call = "start" => ~scheduler.running
       /\ last'.rec.call = "shutdown" => scheduler.running
       /\ last'.rec.err \notin {"SchedulerAlreadyRunningError", "SchedulerNotRunningError"}
       /\ (last'.op \in {"shutdown", "shutdown_requested"} /\ ~scheduler.running)
            => (last'.rec.call = "none" /\ scheduler' = scheduler)]_vars

\* manager.shutdown handled right after manager.shutdown_requested has shut
\* the scheduler down.
C13_Witness ==
    /\ last.op = "shutdown"
    /\ last.follows = "shutdown_requested"
    /\ last.rec.call = "none"

\* C14: run_job submits its tasks once, as a cron execution of priority 5, and
\* does not return before every event manager.execute returned is set; once
\* it has submitted, and the events get set, in whatever order, it returns.
C14_RunJobWaitsForAll ==
    /\ [](run.pc = "returned" =>
            /\ Fired = 1..run.finished_events
            /\ Len(run.submitted) = 1
            /\ run.submitted[1].options.cron
            /\ run.submitted[1].priority = 5
            /\ \E j \in jobs : run.submitted[1].options.tasks = j.args)
    /\ (run.pc = "waiting" ~> run.pc = "returned")

\* run_job has returned after waiting for events that were set in another
\* order than it waited for them.
C14_Witness ==
    /\ run.pc = "returned"
    /\ run.finished_events >= 2
    /\ run.fired[1] > run.fired[2]

\* C15: whatever tzlocal.get_localzone() does (a named zone, the nameless
\* 'local', UnknownTimeZoneError, struct.error), setup_scheduler raises
\* nothing, creates the scheduler and reconciles; the scheduler's timezone is
\* UTC in the last three cases and the detected zone in the first.
C15_TimezoneFallback ==
    [][last'.op = "daemon.started" =>
         /\ last'.rec.err = ""
         /\ scheduler'.exists
         /\ last'.rec.outcome \in {"done", "disabled"}
         /\ scheduler'.timezone = IF tzlocal = "named" THEN "Europe/Helsinki" ELSE "UTC"]_vars

\* A daemon started where tzlocal raises struct.error: the scheduler is
\* there, in UTC, and the jobs are set up.
C15_Witness ==
    /\ last.op = "daemon.started"
    /\ tzlocal = "struct.error"
    /\ scheduler.exists /\ scheduler.timezone = "UTC"
    /\ Reconciled /\ jobs # {}

\* The answer of the API to an id that matches no schedule.
NotFound(resp) == resp.code = 400 /\ resp.msg \in {"invalid schedule id", "Invalid id"}

\* C16: Get, Replace, Update and Delete answer not found exactly when the id
\* matches no entry of the schedule list: with an unknown id they answer not
\* found, and do not crash, whether `schedules` is a list, empty, absent or
\* false; with a known id (and a save and a reconciliation that succeed) they
\* answer with a success that differs from the error answer.
C16_NotFoundIffUnknown ==
    [][last'.op \in {"get", "replace", "update", "delete"} =>
         LET known == last'.id \in LiveAddrs(config)
         IN /\ ~known => NotFound(last')
            /\ (known /\ (last'.op = "get" \/ (last'.save = "ok" /\ last'.rec.outcome # "error")))
                 => (last'.code # 400 /\ ~NotFound(last'))]_vars

\* C17: List answers with one entry for every schedule of the list, in order,
\* each with the id under which setup_jobs registered its job, and each entry
\* whose job is in the job store carries that job's next_run_time.
C17_ListAnnotated ==
    (last.op = "list" /\ config.kind = "list") =>
        /\ Len(last.listing) = Len(config.list)
        /\ \A i \in 1..Len(last.listing) :
             LET entry == last.listing[i]
                 job == get_job(jobs, JobIdOf(config.list[i]))
             IN /\ ConfigOf(entry) = config.list[i].conf
                /\ Unicode(entry["id"]) = JobIdOf(config.list[i])
                /\ job # {} =>
                     /\ "next_run_time" \in DOMAIN entry
                     /\ \A j \in job : entry["next_run_time"] = j.next_run_time

\* A Create of a well-formed config that was answered with success, saved and
\* reconciled, on a configuration whose `schedules` was absent or false.
CreatedOnDisabled ==
    /\ config.kind \in {"absent", "false"}
    /\ last'.op = "create" /\ last'.code = 200 /\ last'.save = "ok"
    /\ ValidItem(last'.input)

\* C18: a Create on a configuration whose schedules are absent or false
\* enables scheduling: afterwards the schedule list is the created config
\* alone, the job store holds the job of that config under its id, and the
\* scheduler is running.
C18_CreateEnables ==
    [][CreatedOnDisabled =>
         /\ config'.kind = "list"
         /\ Len(config'.list) = 1
         /\ config'.list[1] = [addr |-> last'.id, conf |-> last'.input]
         /\ \E j \in jobs' :
              /\ j.id = Unicode(last'.id)
              /\ JobContent(j) = JobContent(NewJob(j.id, last'.input, now))
         /\ scheduler'.running]_vars

\* Create on an absent or false `schedules` where the address of the submitted
\* dict is the id of no stored job: the list, the job and the running
\* scheduler are as C18 says.
CreateEnablesFreshId ==
    [][(CreatedOnDisabled /\ Unicode(last'.id) \notin JobIds(jobs)) =>
         /\ config'.kind = "list"
         /\ Len(config'.list) = 1
         /\ config'.list[1] = [addr |-> last'.id, conf |-> last'.input]
         /\ \E j \in jobs' :
              /\ j.id = Unicode(last'.id)
              /\ JobContent(j) = JobContent(NewJob(j.id, last'.input, now))
         /\ JobIds(jobs') = {Unicode(last'.id)}
         /\ scheduler'.running]_vars

\* C19: the entries of the schedule list get job ids of their own, also when
\* two of them have the same content: after setup_jobs has run to its end on
\* a list of n entries the job store holds n jobs, one per entry, and add_job
\* is never called with an id that is stored already.
C19_DistinctIds ==
    /\ last.rec.err # "ConflictingIdError"
    /\ (Reconciled /\ config.kind = "list") =>
         /\ Cardinality(jobs) = Len(config.list)
         /\ Cardinality({JobIdOf(o) : o \in Objects(config)}) = Len(config.list)
         /\ \A o \in Objects(config) : Cardinality(get_job(jobs, JobIdOf(o))) = 1

\* A list of two entries of the same content reconciled against a job store
\* that held the id of one of them: two jobs.
C19_Witness ==
    /\ Reconciled /\ config.kind = "list"
    /\ Len(config.list) = 2
    /\ config.list[1].conf = config.list[2].conf
    /\ Cardinality(jobs) = 2
    /\ last.rec.added # {}
    /\ last.rec.configured \ last.rec.added # {}

\* C20: once manager.shutdown_requested or manager.shutdown has been
\* handled, the scheduler of the process stays stopped: a reconciliation
\* that comes next, from manager.config_updated or from a request of the API,
\* neither starts it nor adds a job.
C20_StaysStopped ==
    [][(/\ last.op \in {"shutdown_requested", "shutdown"}
        /\ scheduler.exists
        /\ last'.op \in {"config_updated", "create", "replace", "update", "delete"})
         => /\ ~scheduler'.running
            /\ JobIds(jobs') \subseteq JobIds(jobs)]_vars
====
